---- MODULE Spec2Model ----
(***************************************************************************)
(* plot.py of motion-features: the command-line reporting script.          *)
(*                                                                         *)
(* Two specifications over one set of variables:                           *)
(*   Spec      the script as a state machine: the __main__ block or an     *)
(*             importing caller enters main, main discovers the runs and   *)
(*             walks its chain of `if`s, each handler runs step by step;   *)
(*   SpecEval  the numeric part (predict, the multi-offset accuracy of     *)
(*             offset_eval, the confusion matrix of confusion_plot) on     *)
(*             every loader within the bounds.                             *)
(*                                                                         *)
(* Python values: None is the string NoneVal; lists are sequences (index   *)
(* i of Python is index i+1 here); class ids stay 0-based.  Floats are     *)
(* exact rationals <<numerator, denominator>> with denominator > 0.        *)
(***************************************************************************)
EXTENDS Integers, Sequences, FiniteSets, TLC

\* ---------------------------------------------------------------- bounds
MaxRuns == 2
MaxLen == 4
MaxBatch == 2
MaxSkip == 2

\* ---------------------------------------------------------------- values
NoneVal == "<None>"

Types == <<"train", "confusion", "status", "multi-eval", "ablation">>

TypeSet == {Types[i] : i \in 1..Len(Types)}

DataVals == {NoneVal, "eval.h5"}

OutputVals == {NoneVal, "", "out.csv"}

ArgsSet == [type : TypeSet, data : DataVals, output : OutputVals]

\* dataset.action_descriptions: the class names, class id c at index c.
ClassNames == <<"walk", "run">>

Classes == 0..(Len(ClassNames) - 1)

\* The rows of logits the model can return for one sample: one value per
\* class, no two equal.
Logits == {<<0, 1>>, <<1, 0>>, <<2, 0>>}

Samples == [logits : Logits, y : Classes]

RECURSIVE SeqsUpTo(_, _)
SeqsUpTo(S, n) ==
    IF n = 0 THEN {<<>>}
    ELSE LET shorter == SeqsUpTo(S, n - 1)
         IN  shorter \cup {Append(q, x) : q \in {r \in shorter : Len(r) = n - 1}, x \in S}

\* The datasets load_run can hand back: up to MaxLen items.
Datasets == SeqsUpTo(Samples, MaxLen)

\* ---------------------------------------------------------------- helpers
Range(s) == {s[i] : i \in 1..Len(s)}

RECURSIVE SumSeq(_)
SumSeq(s) == IF s = <<>> THEN 0 ELSE s[1] + SumSeq(Tail(s))

RECURSIVE Pow2(_)
Pow2(n) == IF n = 0 THEN 1 ELSE 2 * Pow2(n - 1)

RECURSIVE Flat(_)
Flat(ss) == IF ss = <<>> THEN <<>> ELSE ss[1] \o Flat(Tail(ss))

RatLess(p, q) == p[1] * q[2] < q[1] * p[2]

RatAdd(p, q) == <<p[1] * q[2] + q[1] * p[2], p[2] * q[2]>>

RECURSIVE RatSum(_)
RatSum(s) == IF s = <<>> THEN <<0, 1>> ELSE RatAdd(s[1], RatSum(Tail(s)))

\* Mutant of Truthy: `if args.output is not None`.
Truthy_IsNotNone(v) == v # NoneVal

\* Python truthiness of an optional string: None and "" are false.
Truthy(v) == v # NoneVal /\ v # ""

\* ---------------------------------------------------------------- predict
\* torch.max(logits, 1): the 0-based index of the largest logit of a row.
\* Rows of the model have no ties (see Logits).
TorchMax(row) == CHOOSE c \in Classes : \A d \in Classes : row[d + 1] <= row[c + 1]

\* F.softmax(logits, dim=1) on one row, exactly, with base 2 in place of e:
\* positive, summing to 1, strictly increasing in the logit.
Softmax(row) ==
    LET den == SumSeq([c \in 1..Len(row) |-> Pow2(row[c])])
    IN  [c \in 1..Len(row) |-> <<Pow2(row[c]), den>>]

\* np.argmax over a vector of rationals: 0-based index of the first maximum.
ArgMaxFirst(v) ==
    CHOOSE c \in 0..(Len(v) - 1) :
        /\ \A d \in 0..(Len(v) - 1) : ~RatLess(v[c + 1], v[d + 1])
        /\ \A d \in 0..(c - 1) : RatLess(v[d + 1], v[c + 1])

\* One iteration of predict's loop on a batch (x, y): y.data[0] and
\* y_hat.data[0] are the FIRST sample's target and prediction, while the
\* confidence array keeps every row of the batch.
PredictBatch(batch) ==
    [target     |-> batch[1].y,
     prediction |-> TorchMax(batch[1].logits),
     confidence |-> [r \in 1..Len(batch) |-> Softmax(batch[r].logits)]]

RECURSIVE Predict(_)
Predict(batches) ==
    IF batches = <<>>
    THEN [predictions |-> <<>>, targets |-> <<>>, confidences |-> <<>>]
    ELSE LET one  == PredictBatch(batches[1])
             rest == Predict(Tail(batches))
         IN  [predictions |-> <<one.prediction>> \o rest.predictions,
              targets     |-> <<one.target>> \o rest.targets,
              confidences |-> <<one.confidence>> \o rest.confidences]

\* The loader load_run builds: the dataset's items in order, cut into batches
\* of bsz items, the last one possibly shorter.
RECURSIVE Batches(_, _)
Batches(items, bsz) ==
    IF items = <<>> THEN <<>>
    ELSE IF Len(items) <= bsz THEN <<items>>
    ELSE <<SubSeq(items, 1, bsz)>> \o Batches(SubSeq(items, bsz + 1, Len(items)), bsz)

\* ---------------------------------------------------------------- metrics
\* sklearn accuracy_score(y_true, y_pred): lengths must agree; the fraction
\* of positions where the two lists agree, as <<correct, total>>.
AccuracyScore(targets, predictions) ==
    IF Len(targets) # Len(predictions)
    THEN [ok |-> FALSE, exc |-> "ValueError", value |-> <<0, 1>>]
    ELSE [ok |-> TRUE, exc |-> "",
          value |-> <<Cardinality({i \in 1..Len(targets) : targets[i] = predictions[i]}),
                      Len(targets)>>]

\* The ascending sequence of the elements of a finite set of integers.
RECURSIVE SortedSeq(_)
SortedSeq(S) ==
    IF S = {} THEN <<>>
    ELSE LET m == CHOOSE x \in S : \A y \in S : x <= y
         IN  <<m>> \o SortedSeq(S \ {m})

\* sklearn confusion_matrix(y_true, y_pred) with no labels argument: the
\* labels are the sorted values that occur in y_true or y_pred, and cell
\* [i][j] counts the samples with target labels[i] and prediction labels[j].
ConfusionMatrix(targets, predictions) ==
    LET labels == SortedSeq(Range(targets) \cup Range(predictions))
        n      == Len(labels)
    IN  [labels |-> labels,
         cells  |-> [i \in 1..n |-> [j \in 1..n |->
                        Cardinality({s \in 1..Len(targets) :
                            targets[s] = labels[i] /\ predictions[s] = labels[j]})]]]

\* mask = confusion == 0
Mask(confusion) ==
    [i \in 1..Len(confusion.cells) |-> [j \in 1..Len(confusion.cells) |->
        confusion.cells[i][j] = 0]]

\* ---------------------------------------------------------------- offset_eval
\* np.concatenate(confidences, axis=0): the rows of all batches in order;
\* an empty list raises.
Concatenate(confidences) ==
    IF confidences = <<>>
    THEN [ok |-> FALSE, exc |-> "ValueError", rows |-> <<>>]
    ELSE [ok |-> TRUE, exc |-> "", rows |-> Flat(confidences)]

\* Mutant of Reshape: the offsets taken as the inner index, as
\* reshape(n, s, -1) read transposed would give.
Reshape_Interleaved(rows, s, n) ==
    LET flat == Flat(rows)
    IN  IF s * n = 0 \/ Len(flat) % (s * n) # 0
        THEN [ok |-> FALSE, exc |-> "ValueError", a |-> <<>>]
        ELSE LET D == Len(flat) \div (s * n)
             IN  [ok |-> TRUE, exc |-> "",
                  a |-> [k \in 1..s |-> [i \in 1..n |-> [d \in 1..D |->
                            flat[((i - 1) * s + (k - 1)) * D + d]]]]]

\* rows.reshape(s, n, -1): the elements in row-major order are regrouped;
\* the last dimension is whatever makes the sizes agree, and numpy raises when
\* none does.  Element [k][i][d] (0-based) is flat element (k*n + i)*D + d.
Reshape(rows, s, n) ==
    LET flat == Flat(rows)
    IN  IF s * n = 0 \/ Len(flat) % (s * n) # 0
        THEN [ok |-> FALSE, exc |-> "ValueError", a |-> <<>>]
        ELSE LET D == Len(flat) \div (s * n)
             IN  [ok |-> TRUE, exc |-> "",
                  a |-> [k \in 1..s |-> [i \in 1..n |-> [d \in 1..D |->
                            flat[((k - 1) * n + (i - 1)) * D + d]]]]]

\* a.mean(axis=0) of an s x n x D array: n rows of D means.
MeanAxis0(a) ==
    LET s == Len(a)
        n == Len(a[1])
        D == IF n = 0 THEN 0 ELSE Len(a[1][1])
    IN  [i \in 1..n |-> [d \in 1..D |->
            LET t == RatSum([k \in 1..s |-> a[k][i][d]])
            IN  <<t[1], t[2] * s>>]]

\* Lines 131-136 of offset_eval for one run: from predict's lists, the
\* dataset length and its skip to the multi-offset accuracy, or the exception.
MultiOffsetAccuracy(res, length, skip) ==
    LET n_samples == length \div skip
        targets   == SubSeq(res.targets, 1,
                            IF n_samples < Len(res.targets) THEN n_samples
                            ELSE Len(res.targets))
        cat       == Concatenate(res.confidences)
        shaped    == Reshape(cat.rows, skip, n_samples)
    IN  IF ~cat.ok THEN [ok |-> FALSE, exc |-> cat.exc, value |-> <<0, 1>>,
                         predictions |-> <<>>, targets |-> targets]
        ELSE IF ~shaped.ok THEN [ok |-> FALSE, exc |-> shaped.exc, value |-> <<0, 1>>,
                                 predictions |-> <<>>, targets |-> targets]
        ELSE LET means       == MeanAxis0(shaped.a)
                 predictions == [i \in 1..n_samples |-> ArgMaxFirst(means[i])]
                 score       == AccuracyScore(targets, predictions)
             IN  [ok |-> score.ok, exc |-> score.exc, value |-> score.value,
                  predictions |-> predictions, targets |-> targets]

\* ---------------------------------------------------------------- state
VARIABLES
    entry,        \* "none" | "script" | "import": who called main
    gargs,        \* the module global `args`: <<>> when unbound, else <<namespace>>
    a,            \* the parameter `args` of main
    runs,         \* main's list of run directories
    pc,           \* position of the program
    ifi,          \* which `if` of main is next (1..5, 6 = past the last)
    k,            \* index into runs of the handler's current loop (0-based)
    calls,        \* handlers called so far, each with the run list it received
    log,          \* steps executed so far: <<step, run>>
    infos,        \* get_run_info results collected by the handler
    summaries,    \* get_run_summary results collected by the handler
    summary,      \* the concatenated (and sorted) table
    files,        \* files written: records [path, dir, rows]
    stdout,       \* tables printed
    exc,          \* the exception that left main, "" when none
    failed,       \* <<step, run>> of the call that raised, <<>> when none
    prm,          \* ablation: parameters whose table has been printed
    used,         \* the data and output values the handlers read: <<kind, value>>
    items,        \* loader.dataset: the items of the current run's dataset
    bsz,          \* the loader's batch size
    skip,         \* dataset.skip
    epc,          \* position of the evaluation (SpecEval)
    j,            \* batches consumed by predict's loop
    predictions,  \* predict's list
    targets,      \* predict's list
    confidences,  \* predict's list
    moa,          \* result of the multi-offset evaluation of the current run
    confusion,    \* result of the confusion evaluation of the current run
    model         \* the run whose model and loader are loaded, 0 when none

mainVars == <<entry, gargs, a, runs, pc, ifi, k, calls, log, infos, summaries,
              summary, files, stdout, exc, failed, prm, used, model>>

evalVars == <<items, bsz, skip, epc, j, predictions, targets, confidences, moa,
              confusion>>

vars == <<mainVars, evalVars>>

NoResult == [ok |-> TRUE, exc |-> "", value |-> <<0, 1>>, predictions |-> <<>>,
             targets |-> <<>>]

NoConfusion == [matrix |-> [labels |-> <<>>, cells |-> <<>>], mask |-> <<>>,
                overall_accuracy |-> <<0, 1>>, ok |-> TRUE, exc |-> ""]

MainIdle ==
    /\ entry = "none" /\ gargs = <<>> /\ a = [type |-> "train", data |-> NoneVal, output |-> NoneVal]
    /\ runs = <<>> /\ pc = "start" /\ ifi = 1 /\ k = 0 /\ calls = <<>> /\ log = <<>>
    /\ infos = <<>> /\ summaries = <<>> /\ summary = <<>> /\ files = {} /\ stdout = <<>>
    /\ exc = "" /\ failed = <<>> /\ prm = 0 /\ used = {} /\ model = 0

EvalIdle ==
    /\ items = <<>> /\ bsz = 1 /\ skip = 1 /\ epc = "idle" /\ j = 0
    /\ predictions = <<>> /\ targets = <<>> /\ confidences = <<>>
    /\ moa = NoResult /\ confusion = NoConfusion

\* ---------------------------------------------------------------- SpecEval
\* Lines 75-78 of confusion_plot: the numbers the plot shows.
ConfusionEval(res) ==
    LET score  == AccuracyScore(res.targets, res.predictions)
        matrix == ConfusionMatrix(res.targets, res.predictions)
    IN  [matrix |-> matrix, mask |-> Mask(matrix),
         overall_accuracy |-> score.value, ok |-> score.ok, exc |-> score.exc]

EvalInit ==
    /\ MainIdle
    /\ items \in Datasets /\ bsz \in 1..MaxBatch /\ skip \in 1..MaxSkip
    /\ epc = "predict" /\ j = 0
    /\ predictions = <<>> /\ targets = <<>> /\ confidences = <<>>
    /\ moa = NoResult /\ confusion = NoConfusion

\* One iteration of `for x, y in tqdm(loader)`.
EvalPredictStep ==
    /\ epc = "predict"
    /\ j < Len(Batches(items, bsz))
    /\ LET one == PredictBatch(Batches(items, bsz)[j + 1])
       IN  /\ predictions' = Append(predictions, one.prediction)
           /\ targets' = Append(targets, one.target)
           /\ confidences' = Append(confidences, one.confidence)
    /\ j' = j + 1
    /\ UNCHANGED <<mainVars, items, bsz, skip, epc, moa, confusion>>

\* The loader is exhausted: predict returns its three lists.
EvalPredictReturn ==
    /\ epc = "predict"
    /\ j = Len(Batches(items, bsz))
    /\ epc' = "returned"
    /\ UNCHANGED <<mainVars, items, bsz, skip, j, predictions, targets, confidences,
                   moa, confusion>>

PredictResult == [predictions |-> predictions, targets |-> targets,
                  confidences |-> confidences]

EvalOffset ==
    /\ epc = "returned"
    /\ moa' = MultiOffsetAccuracy(PredictResult, Len(items), skip)
    /\ epc' = "offset_done"
    /\ UNCHANGED <<mainVars, items, bsz, skip, j, predictions, targets, confidences,
                   confusion>>

\* The empty evaluation set is left out: what sklearn does with it depends
\* on its version.
EvalConfusion ==
    /\ epc = "returned"
    /\ targets # <<>>
    /\ confusion' = ConfusionEval(PredictResult)
    /\ epc' = "confusion_done"
    /\ UNCHANGED <<mainVars, items, bsz, skip, j, predictions, targets, confidences,
                   moa>>

EvalNext == EvalPredictStep \/ EvalPredictReturn \/ EvalOffset \/ EvalConfusion

SpecEval == EvalInit /\ [][EvalNext]_vars

\* ---------------------------------------------------------------- claims on SpecEval
\* The samples the loader has yielded after j batches, in order.
Yielded == Flat(SubSeq(Batches(items, bsz), 1, j))

\* C8: predict's three lists stay aligned for every loader and batch size:
\* after j batches each list has j entries, every sample yielded so far has
\* exactly one prediction, one target and one confidence row, and
\* predictions[i] is the argmax of the i-th confidence row.
C8_PredictAligned ==
    epc \in {"predict", "returned"} =>
        /\ Len(predictions) = j /\ Len(targets) = j /\ Len(confidences) = j
        /\ Len(predictions) = Len(Yielded)
        /\ Len(targets) = Len(Yielded)
        /\ Len(Flat(confidences)) = Len(Yielded)
        /\ \A i \in 1..Len(predictions) :
              /\ i <= Len(Flat(confidences))
              /\ predictions[i] = ArgMaxFirst(Flat(confidences)[i])
              /\ i <= Len(Yielded)
              /\ targets[i] = Yielded[i].y

\* Mean confidence of class c for sample i (0-based) over the offsets
\* k in 0..s-1, taken from dataset item k*n + i.
MeanConf(i, c, n) ==
    LET t == RatSum([kk \in 1..skip |-> Softmax(items[(kk - 1) * n + i + 1].logits)[c + 1]])
    IN  <<t[1], t[2] * skip>>

IsLargestMean(p, i, n) ==
    /\ p \in Classes
    /\ \A d \in Classes : ~RatLess(MeanConf(i, p, n), MeanConf(i, d, n))

\* C6 as written: for every dataset length L and skip s >= 1, with
\* n = L // s, the multi-offset accuracy is the fraction of samples i in
\* 0..n-1 whose class of largest mean confidence over the offsets (items
\* k*n + i) equals the target of item i; every item's confidence is used in
\* exactly one (k, i) cell.
C6_AsWritten ==
    epc = "offset_done" =>
        LET n == Len(items) \div skip
        IN  /\ moa.ok
            /\ Len(items) = skip * n
            /\ Len(moa.predictions) = n
            /\ \A i \in 0..(n - 1) : IsLargestMean(moa.predictions[i + 1], i, n)
            /\ moa.value = <<Cardinality({i \in 0..(n - 1) :
                                moa.predictions[i + 1] = items[i + 1].y}), n>>

\* C6 amended: when the dataset length is a positive multiple of skip
\* (n = L // s >= 1), sample i's prediction is the class of largest mean
\* confidence over the offsets of dataset sample k*n + i, every sample's
\* confidence is used in exactly one cell, and the accuracy is the fraction
\* of i in 0..n-1 whose prediction equals the first target of loader item i;
\* when the loader yields fewer than n items the evaluation raises ValueError.
C6_MultiOffsetAccuracy ==
    (epc = "offset_done" /\ Len(items) >= skip /\ Len(items) % skip = 0) =>
        LET n      == Len(items) \div skip
            loader == Batches(items, bsz)
        IN  IF Len(loader) >= n
            THEN /\ moa.ok
                 /\ Len(moa.predictions) = n
                 /\ \A i \in 0..(n - 1) : IsLargestMean(moa.predictions[i + 1], i, n)
                 /\ moa.targets = [i \in 1..n |-> loader[i][1].y]
                 /\ moa.value = <<Cardinality({i \in 0..(n - 1) :
                                     moa.predictions[i + 1] = loader[i + 1][1].y}), n>>
            ELSE ~moa.ok /\ moa.exc = "ValueError"

\* Two offsets of two samples each were averaged, and for sample 0 the mean
\* over the offsets picks another class than its first offset alone.
C6_Witness ==
    /\ epc = "offset_done" /\ skip = 2 /\ Len(items) = 4 /\ bsz = 1 /\ moa.ok
    /\ moa.predictions[1] # TorchMax(items[1].logits)
    /\ moa.value[1] = 1

\* Number of evaluated samples with true class ClassNames[i] and predicted
\* class ClassNames[jj] (1-based positions in ClassNames).
ClassCount(i, jj) ==
    Cardinality({s \in 1..Len(targets) : targets[s] = i - 1 /\ predictions[s] = jj - 1})

\* C7: cell (i, j) of the plotted matrix is the number of evaluated samples
\* with true class the i-th and predicted class the j-th entry of
\* action_descriptions, also when a class occurs in neither list; the masked
\* cells are exactly those with count 0; the accuracy is trace / samples.
C7_ConfusionCells ==
    epc = "confusion_done" =>
        /\ \A i \in 1..Len(ClassNames), jj \in 1..Len(ClassNames) :
              /\ i <= Len(confusion.matrix.cells) /\ jj <= Len(confusion.matrix.cells)
              /\ confusion.matrix.cells[i][jj] = ClassCount(i, jj)
              /\ confusion.mask[i][jj] <=> (ClassCount(i, jj) = 0)
        /\ confusion.overall_accuracy =
              <<SumSeq([i \in 1..Len(ClassNames) |-> ClassCount(i, i)]), Len(targets)>>

\* ---------------------------------------------------------------- Spec: values
RunIds == 1..MaxRuns

\* What glob2.glob(run_dir/**/log.txt) can find: any list of distinct run
\* directories (each holds one log.txt), in the order glob yields them.
RunLists == {rs \in SeqsUpTo(RunIds, MaxRuns) : \A x, y \in 1..Len(rs) : x # y => rs[x] # rs[y]}

\* best_acc values a run's log can hold, as rationals.
AccVals == {<<1, 2>>, <<9, 10>>}

\* The evaluation data load_run can hand back for a run: loaders of one
\* sample per item whose length is or is not a multiple of skip, an empty
\* dataset, and a loader of two samples per item.
RunData ==
    LET two   == <<[logits |-> <<0, 1>>, y |-> 1], [logits |-> <<2, 0>>, y |-> 0]>>
        three == <<[logits |-> <<1, 0>>, y |-> 0], [logits |-> <<0, 1>>, y |-> 0],
                   [logits |-> <<2, 0>>, y |-> 1]>>
    IN  {[items |-> two, bsz |-> 1, skip |-> 2],
         [items |-> two, bsz |-> 1, skip |-> 1],
         [items |-> three, bsz |-> 1, skip |-> 2],
         [items |-> <<>>, bsz |-> 1, skip |-> 1],
         [items |-> two, bsz |-> 2, skip |-> 1]}

Handlers == <<"train_plot", "confusion_plot", "display_status", "offset_eval", "ablation">>

EntryPc == <<"train_info", "conf_load", "st_info", "oe_load", "ab_sum">>

\* ablation's params list.
AblationParams == <<"bidirectional", "embed", "hd", "layers">>

\* utils.get_run_info(run): the run's record; its first field is the run's
\* directory.
GetRunInfo(run, acc) == [run_dir |-> run, best_acc |-> acc]

\* run_dir of `run_dir, _, _, label, _, params = run_info`, run_info being
\* the info load_run hands back for the run.
LoadedRunDir(run) == GetRunInfo(run, <<0, 1>>).run_dir

\* utils.get_run_summary(info, **extra): a table of one row for the run.
GetRunSummary(info, multi) ==
    <<[run |-> info.run_dir, best_acc |-> info.best_acc, multi_offset_acc |-> multi]>>

\* Mutant of Concat: an empty list gives an empty table.
Concat_EmptyTable(tables) == [ok |-> TRUE, exc |-> "", rows |-> Flat(tables)]

\* pd.concat(summaries, ignore_index=True): the rows of all tables in order;
\* an empty list raises ValueError.
Concat(tables) ==
    IF tables = <<>> THEN [ok |-> FALSE, exc |-> "ValueError", rows |-> <<>>]
    ELSE [ok |-> TRUE, exc |-> "", rows |-> Flat(tables)]

\* Mutant of SortValues: ascending order.
SortValues_Ascending(rows, key) ==
    LET n     == Len(rows)
        perms == {f \in [1..n -> 1..n] : \A x, y \in 1..n : x # y => f[x] # f[y]}
    IN  {[i \in 1..n |-> rows[f[i]]] : f \in
            {g \in perms : \A i \in 1..(n - 1) :
                ~RatLess(rows[g[i + 1]][key], rows[g[i]][key])}}

\* DataFrame.sort_values(key, ascending=False): the rows in non-increasing
\* order of key.  The default sort is not stable, so every such order of the
\* rows is a possible result.
SortValues(rows, key) ==
    LET n     == Len(rows)
        perms == {f \in [1..n -> 1..n] : \A x, y \in 1..n : x # y => f[x] # f[y]}
    IN  {[i \in 1..n |-> rows[f[i]]] : f \in
            {g \in perms : \A i \in 1..(n - 1) :
                ~RatLess(rows[g[i]][key], rows[g[i + 1]][key])}}

\* Mutant of Selected: the test of the multi-eval `if` copied from status.
Selected_Copied(t, i) == IF i = 4 THEN t \in {"status", "multi-eval"} ELSE t = Types[i]

\* `if args.type == '<type>':` of main, for the i-th `if`.
Selected(t, i) == t = Types[i]

\* ---------------------------------------------------------------- Spec: steps
Init == MainIdle /\ EvalIdle

Raise(e, step, run) ==
    /\ pc' = "raised"
    /\ exc' = e
    /\ failed' = <<step, run>>

Return ==
    /\ pc' = "if"
    /\ ifi' = ifi + 1

\* The __main__ block: args is bound at module level, then main(args).
ScriptEntry ==
    /\ pc = "start"
    /\ \E parsed \in ArgsSet :
         /\ gargs' = <<parsed>>
         /\ a' = parsed
    /\ entry' = "script"
    /\ pc' = "main"
    /\ UNCHANGED <<runs, ifi, k, calls, log, infos, summaries, summary, files, stdout,
                   exc, failed, prm, used, model, evalVars>>

\* main(x) called by a module that imported plot: the global `args` is
\* whatever that module left there, unbound unless it assigned it.  No
\* handler reads the global's type, so it is taken equal to x's.
ImportEntry ==
    /\ pc = "start"
    /\ \E x \in ArgsSet :
         /\ a' = x
         /\ gargs' \in {<<>>} \cup {<<g>> : g \in {y \in ArgsSet : y.type = x.type}}
    /\ entry' = "import"
    /\ pc' = "main"
    /\ UNCHANGED <<runs, ifi, k, calls, log, infos, summaries, summary, files, stdout,
                   exc, failed, prm, used, model, evalVars>>

\* logs = glob2.glob(...); runs = [os.path.dirname(l) for l in logs]
Glob ==
    /\ pc = "main"
    /\ runs' \in RunLists
    /\ pc' = "if"
    /\ ifi' = 1
    /\ UNCHANGED <<entry, gargs, a, k, calls, log, infos, summaries, summary, files,
                   stdout, exc, failed, prm, used, model, evalVars>>

\* One `if args.type == ...` of main: call the handler with runs, or go on.
MainIf ==
    /\ pc = "if"
    /\ ifi <= Len(Types)
    /\ IF Selected(a.type, ifi)
       THEN /\ calls' = Append(calls, [handler |-> Handlers[ifi], runs |-> runs])
            /\ pc' = EntryPc[ifi]
            /\ k' = 0
            /\ UNCHANGED ifi
       ELSE /\ ifi' = ifi + 1
            /\ UNCHANGED <<calls, pc, k>>
    /\ UNCHANGED <<entry, gargs, a, runs, log, infos, summaries, summary, files, stdout,
                   exc, failed, prm, used, model, evalVars>>

MainReturn ==
    /\ pc = "if"
    /\ ifi > Len(Types)
    /\ pc' = "done"
    /\ UNCHANGED <<entry, gargs, a, runs, ifi, k, calls, log, infos, summaries, summary,
                   files, stdout, exc, failed, prm, used, model, evalVars>>

\* ------------------------------------------------ train_plot
\* run_infos = [get_run_info(run) for run in runs], one run per step.
TrainInfo ==
    /\ pc = "train_info"
    /\ k < Len(runs)
    /\ \E ok \in BOOLEAN, acc \in AccVals :
         IF ok
         THEN /\ infos' = Append(infos, GetRunInfo(runs[k + 1], acc))
              /\ log' = Append(log, <<"get_run_info", runs[k + 1]>>)
              /\ k' = k + 1
              /\ UNCHANGED <<pc, exc, failed>>
         ELSE /\ Raise("Error", "get_run_info", runs[k + 1])
              /\ UNCHANGED <<infos, log, k>>
    /\ UNCHANGED <<entry, gargs, a, runs, ifi, calls, summaries, summary, files, stdout,
                   prm, used, model, evalVars>>

\* One curve per run info on each axis, then plt.savefig('train_progress.pdf').
TrainPlot ==
    /\ pc = "train_info"
    /\ k = Len(runs)
    /\ \E ok \in BOOLEAN :
         IF ok
         THEN /\ files' = files \cup {[path |-> "train_progress.pdf", dir |-> 0,
                                       rows |-> Len(infos)]}
              /\ Return
              /\ UNCHANGED <<exc, failed>>
         ELSE /\ Raise("Error", "savefig", 0)
              /\ UNCHANGED <<files, ifi>>
    /\ UNCHANGED <<entry, gargs, a, runs, k, calls, log, infos, summaries, summary, stdout,
                   prm, used, model, evalVars>>

\* ------------------------------------------------ load_run, predict (shared)
\* load_run(run, data=args.data, ...): `args` is the module global, read
\* before the call; the call hands back the run's info, model and loader.
LoadRun(next) ==
    /\ k < Len(runs)
    /\ IF gargs = <<>>
       THEN /\ Raise("NameError", "load_run", runs[k + 1])
            /\ UNCHANGED <<used, log, model, items, bsz, skip, predictions, targets,
                           confidences>>
       ELSE /\ used' = used \cup {<<"data", gargs[1].data>>}
            /\ \E ok \in BOOLEAN, d \in RunData :
                 IF ok
                 THEN /\ items' = d.items /\ bsz' = d.bsz /\ skip' = d.skip
                      /\ predictions' = <<>> /\ targets' = <<>> /\ confidences' = <<>>
                      /\ model' = runs[k + 1]
                      /\ log' = Append(log, <<"load_run", runs[k + 1]>>)
                      /\ pc' = next
                      /\ UNCHANGED <<exc, failed>>
                 ELSE /\ Raise("Error", "load_run", runs[k + 1])
                      /\ UNCHANGED <<log, model, items, bsz, skip, predictions, targets,
                                     confidences>>
    /\ UNCHANGED <<entry, gargs, a, runs, ifi, k, calls, infos, summaries, summary, files,
                   stdout, prm, epc, j, moa, confusion>>

\* predict(model, loader, cuda=params['cuda']): the whole loop.
RunPredict(next) ==
    /\ \E ok \in BOOLEAN :
         IF ok
         THEN /\ LET res == Predict(Batches(items, bsz))
                 IN  /\ predictions' = res.predictions
                     /\ targets' = res.targets
                     /\ confidences' = res.confidences
              /\ log' = Append(log, <<"predict", runs[k + 1]>>)
              /\ pc' = next
              /\ UNCHANGED <<exc, failed>>
         ELSE /\ Raise("Error", "predict", runs[k + 1])
              /\ UNCHANGED <<log, predictions, targets, confidences>>
    /\ UNCHANGED <<entry, gargs, a, runs, ifi, k, calls, infos, summaries, summary, files,
                   stdout, prm, used, model, items, bsz, skip, epc, j, moa, confusion>>

\* ------------------------------------------------ confusion_plot
ConfLoad ==
    /\ pc = "conf_load"
    /\ LoadRun("conf_predict")

\* `for run in runs` is exhausted: confusion_plot returns.
ConfReturn ==
    /\ pc = "conf_load"
    /\ k = Len(runs)
    /\ Return
    /\ UNCHANGED <<entry, gargs, a, runs, k, calls, log, infos, summaries, summary, files,
                   stdout, exc, failed, prm, used, model, evalVars>>

ConfPredict ==
    /\ pc = "conf_predict"
    /\ RunPredict("conf_metrics")

\* accuracy_score, confusion_matrix and the mask.
ConfMetrics ==
    /\ pc = "conf_metrics"
    /\ \E ok \in BOOLEAN :
         IF ok
         THEN /\ confusion' = ConfusionEval(PredictResult)
              /\ log' = Append(log, <<"metrics", runs[k + 1]>>)
              /\ pc' = "conf_save"
              /\ UNCHANGED <<exc, failed>>
         ELSE /\ Raise("Error", "metrics", runs[k + 1])
              /\ UNCHANGED <<log, confusion>>
    /\ UNCHANGED <<entry, gargs, a, runs, ifi, k, calls, infos, summaries, summary, files,
                   stdout, prm, used, model, items, bsz, skip, epc, j, predictions, targets,
                   confidences, moa>>

\* Mutant of ConfSave: plt.savefig('confusion.pdf'), into the working directory.
ConfSave_WorkingDir ==
    /\ pc = "conf_save"
    /\ \E ok \in BOOLEAN :
         IF ok
         THEN /\ files' = files \cup {[path |-> "confusion.pdf", dir |-> 0,
                                       rows |-> Len(targets)]}
              /\ log' = Append(log, <<"savefig", runs[k + 1]>>)
              /\ pc' = "conf_del"
              /\ UNCHANGED <<exc, failed>>
         ELSE /\ Raise("Error", "savefig", runs[k + 1])
              /\ UNCHANGED <<log, files>>
    /\ UNCHANGED <<entry, gargs, a, runs, ifi, k, calls, infos, summaries, summary, stdout,
                   prm, used, model, evalVars>>

\* The heatmap, then plt.savefig(os.path.join(run_dir, 'confusion.pdf')),
\* run_dir being the first field of the run's info.
ConfSave ==
    /\ pc = "conf_save"
    /\ \E ok \in BOOLEAN :
         IF ok
         THEN /\ files' = files \cup {[path |-> "confusion.pdf",
                                       dir  |-> LoadedRunDir(runs[k + 1]),
                                       rows |-> Len(targets)]}
              /\ log' = Append(log, <<"savefig", runs[k + 1]>>)
              /\ pc' = "conf_del"
              /\ UNCHANGED <<exc, failed>>
         ELSE /\ Raise("Error", "savefig", runs[k + 1])
              /\ UNCHANGED <<log, files>>
    /\ UNCHANGED <<entry, gargs, a, runs, ifi, k, calls, infos, summaries, summary, stdout,
                   prm, used, model, evalVars>>

\* del model, loader, predictions, targets; then the next run.
ConfDel ==
    /\ pc = "conf_del"
    /\ model' = 0
    /\ predictions' = <<>> /\ targets' = <<>>
    /\ log' = Append(log, <<"release", runs[k + 1]>>)
    /\ k' = k + 1
    /\ pc' = "conf_load"
    /\ UNCHANGED <<entry, gargs, a, runs, ifi, calls, infos, summaries, summary, files,
                   stdout, exc, failed, prm, used, items, bsz, skip, epc, j, confidences,
                   moa, confusion>>

\* ------------------------------------------------ emitting a table
\* `if args.output: summary.to_csv(args.output, index=False)
\*  else: print(summary)`, `args` being the module global.
Emit ==
    /\ IF gargs = <<>>
       THEN /\ Raise("NameError", "emit", 0)
            /\ UNCHANGED <<used, files, stdout, ifi>>
       ELSE /\ used' = used \cup {<<"output", gargs[1].output>>}
            /\ IF Truthy(gargs[1].output)
               THEN \E ok \in BOOLEAN :
                      IF ok
                      THEN /\ files' = files \cup {[path |-> gargs[1].output, dir |-> 0,
                                                    rows |-> summary]}
                           /\ Return
                           /\ UNCHANGED <<stdout, exc, failed>>
                      ELSE /\ Raise("Error", "to_csv", 0)
                           /\ UNCHANGED <<files, stdout, ifi>>
               ELSE /\ stdout' = Append(stdout, summary)
                    /\ Return
                    /\ UNCHANGED <<files, exc, failed>>
    /\ UNCHANGED <<entry, gargs, a, runs, k, calls, log, infos, summaries, summary, prm,
                   model, evalVars>>

\* pd.concat(summaries, ignore_index=True).sort_values(key, ascending=False)
ConcatSorted(key, next) ==
    /\ LET all == Concat(summaries)
       IN  IF all.ok
           THEN /\ summary' \in SortValues(all.rows, key)
                /\ pc' = next
                /\ UNCHANGED <<exc, failed>>
           ELSE /\ Raise(all.exc, "concat", 0)
                /\ UNCHANGED summary
    /\ UNCHANGED <<entry, gargs, a, runs, ifi, k, calls, log, infos, summaries, files,
                   stdout, prm, used, model, evalVars>>

\* ------------------------------------------------ display_status
\* infos = [get_run_info(r) for r in runs], one run per step.
StInfo ==
    /\ pc = "st_info"
    /\ k < Len(runs)
    /\ \E ok \in BOOLEAN, acc \in AccVals :
         IF ok
         THEN /\ infos' = Append(infos, GetRunInfo(runs[k + 1], acc))
              /\ log' = Append(log, <<"get_run_info", runs[k + 1]>>)
              /\ k' = k + 1
              /\ UNCHANGED <<pc, exc, failed>>
         ELSE /\ Raise("Error", "get_run_info", runs[k + 1])
              /\ UNCHANGED <<infos, log, k>>
    /\ UNCHANGED <<entry, gargs, a, runs, ifi, calls, summaries, summary, files, stdout,
                   prm, used, model, evalVars>>

\* The first comprehension is done; the second starts.
StInfoDone ==
    /\ pc = "st_info"
    /\ k = Len(runs)
    /\ pc' = "st_sum"
    /\ k' = 0
    /\ UNCHANGED <<entry, gargs, a, runs, ifi, calls, log, infos, summaries, summary, files,
                   stdout, exc, failed, prm, used, model, evalVars>>

\* summaries = [get_run_summary(i) for i in infos], one info per step.
StSummary ==
    /\ pc = "st_sum"
    /\ k < Len(infos)
    /\ \E ok \in BOOLEAN :
         IF ok
         THEN /\ summaries' = Append(summaries, GetRunSummary(infos[k + 1], <<0, 1>>))
              /\ log' = Append(log, <<"get_run_summary", infos[k + 1].run_dir>>)
              /\ k' = k + 1
              /\ UNCHANGED <<pc, exc, failed>>
         ELSE /\ Raise("Error", "get_run_summary", infos[k + 1].run_dir)
              /\ UNCHANGED <<summaries, log, k>>
    /\ UNCHANGED <<entry, gargs, a, runs, ifi, calls, infos, summary, files, stdout, prm,
                   used, model, evalVars>>

StConcat ==
    /\ pc = "st_sum"
    /\ k = Len(infos)
    /\ ConcatSorted("best_acc", "st_emit")

StEmit ==
    /\ pc = "st_emit"
    /\ Emit

\* ------------------------------------------------ offset_eval
OeLoad ==
    /\ pc = "oe_load"
    /\ LoadRun("oe_predict")

OePredict ==
    /\ pc = "oe_predict"
    /\ RunPredict("oe_acc")

\* n_samples ... multi_offset_accuracy = accuracy_score(targets, predictions)
OeAccuracy ==
    /\ pc = "oe_acc"
    /\ LET res == MultiOffsetAccuracy(PredictResult, Len(items), skip)
       IN  /\ moa' = res
           /\ IF res.ok
              THEN /\ log' = Append(log, <<"metrics", runs[k + 1]>>)
                   /\ pc' = "oe_sum"
                   /\ UNCHANGED <<exc, failed>>
              ELSE /\ Raise(res.exc, "metrics", runs[k + 1])
                   /\ UNCHANGED log
    /\ UNCHANGED <<entry, gargs, a, runs, ifi, k, calls, infos, summaries, summary, files,
                   stdout, prm, used, model, items, bsz, skip, epc, j, predictions, targets,
                   confidences, confusion>>

\* Mutant of OeSummary: the call wrapped in try/except, a failing run skipped.
OeSummary_Skip ==
    /\ pc = "oe_sum"
    /\ \E ok \in BOOLEAN, acc \in AccVals :
         IF ok
         THEN /\ summaries' = Append(summaries,
                                GetRunSummary(GetRunInfo(runs[k + 1], acc), moa.value))
              /\ log' = Append(log, <<"get_run_summary", runs[k + 1]>>)
              /\ UNCHANGED <<exc, failed>>
         ELSE /\ exc' = "Error"
              /\ failed' = <<"get_run_summary", runs[k + 1]>>
              /\ UNCHANGED <<summaries, log>>
    /\ k' = k + 1
    /\ pc' = "oe_load"
    /\ UNCHANGED <<entry, gargs, a, runs, ifi, calls, infos, summary, files, stdout, prm,
                   used, model, evalVars>>

\* summary = get_run_summary(run_info, multi_offset_acc=...); append; next run.
OeSummary ==
    /\ pc = "oe_sum"
    /\ \E ok \in BOOLEAN, acc \in AccVals :
         IF ok
         THEN /\ summaries' = Append(summaries,
                                GetRunSummary(GetRunInfo(runs[k + 1], acc), moa.value))
              /\ log' = Append(log, <<"get_run_summary", runs[k + 1]>>)
              /\ k' = k + 1
              /\ pc' = "oe_load"
              /\ UNCHANGED <<exc, failed>>
         ELSE /\ Raise("Error", "get_run_summary", runs[k + 1])
              /\ UNCHANGED <<summaries, log, k>>
    /\ UNCHANGED <<entry, gargs, a, runs, ifi, calls, infos, summary, files, stdout, prm,
                   used, model, evalVars>>

OeConcat ==
    /\ pc = "oe_load"
    /\ k = Len(runs)
    /\ ConcatSorted("multi_offset_acc", "oe_emit")

OeEmit ==
    /\ pc = "oe_emit"
    /\ Emit

\* ------------------------------------------------ ablation
\* summaries = [get_run_summary(get_run_info(r)) for r in runs], one run per step.
AbSummary ==
    /\ pc = "ab_sum"
    /\ k < Len(runs)
    /\ \E ok \in BOOLEAN, acc \in AccVals :
         IF ok
         THEN /\ summaries' = Append(summaries,
                                GetRunSummary(GetRunInfo(runs[k + 1], acc), <<0, 1>>))
              /\ log' = Append(log, <<"get_run_summary", runs[k + 1]>>)
              /\ k' = k + 1
              /\ UNCHANGED <<pc, exc, failed>>
         ELSE /\ Raise("Error", "get_run_info", runs[k + 1])
              /\ UNCHANGED <<summaries, log, k>>
    /\ UNCHANGED <<entry, gargs, a, runs, ifi, calls, infos, summary, files, stdout, prm,
                   used, model, evalVars>>

\* summary = pd.concat(summaries, ignore_index=True)
AbConcat ==
    /\ pc = "ab_sum"
    /\ k = Len(runs)
    /\ LET all == Concat(summaries)
       IN  IF all.ok
           THEN /\ summary' = all.rows
                /\ pc' = "ab_pivot"
                /\ UNCHANGED <<exc, failed>>
           ELSE /\ Raise(all.exc, "concat", 0)
                /\ UNCHANGED summary
    /\ UNCHANGED <<entry, gargs, a, runs, ifi, k, calls, log, infos, summaries, files,
                   stdout, prm, used, model, evalVars>>

\* `for p in params`: the pivot table of one parameter is printed.
AbPivot ==
    /\ pc = "ab_pivot"
    /\ prm < Len(AblationParams)
    /\ \E ok \in BOOLEAN :
         IF ok
         THEN /\ stdout' = Append(stdout, <<AblationParams[prm + 1]>>)
              /\ prm' = prm + 1
              /\ UNCHANGED <<pc, exc, failed>>
         ELSE /\ Raise("Error", "pivot_table", 0)
              /\ UNCHANGED <<stdout, prm>>
    /\ UNCHANGED <<entry, gargs, a, runs, ifi, k, calls, log, infos, summaries, summary,
                   files, used, model, evalVars>>

AbReturn ==
    /\ pc = "ab_pivot"
    /\ prm = Len(AblationParams)
    /\ Return
    /\ UNCHANGED <<entry, gargs, a, runs, k, calls, log, infos, summaries, summary, files,
                   stdout, exc, failed, prm, used, model, evalVars>>

\* ------------------------------------------------ the script
Next ==
    \/ ScriptEntry \/ ImportEntry \/ Glob \/ MainIf \/ MainReturn
    \/ TrainInfo \/ TrainPlot
    \/ ConfLoad \/ ConfReturn \/ ConfPredict \/ ConfMetrics \/ ConfSave \/ ConfDel
    \/ StInfo \/ StInfoDone \/ StSummary \/ StConcat \/ StEmit
    \/ OeLoad \/ OePredict \/ OeAccuracy \/ OeSummary \/ OeConcat \/ OeEmit
    \/ AbSummary \/ AbConcat \/ AbPivot \/ AbReturn

Spec == Init /\ [][Next]_vars

Terminated == pc \in {"done", "raised"}

\* ---------------------------------------------------------------- claims on Spec
\* The handler the command line's type names.
ExpectedHandler(t) ==
    CASE t = "train" -> "train_plot"
      [] t = "confusion" -> "confusion_plot"
      [] t = "status" -> "display_status"
      [] t = "multi-eval" -> "offset_eval"
      [] t = "ablation" -> "ablation"

\* The handler whose code the program is in, "" outside the handlers.
Running ==
    CASE pc \in {"train_info"} -> "train_plot"
      [] pc \in {"conf_load", "conf_predict", "conf_metrics", "conf_save", "conf_del"}
            -> "confusion_plot"
      [] pc \in {"st_info", "st_sum", "st_emit"} -> "display_status"
      [] pc \in {"oe_load", "oe_predict", "oe_acc", "oe_sum", "oe_emit"} -> "offset_eval"
      [] pc \in {"ab_sum", "ab_pivot"} -> "ablation"
      [] OTHER -> ""

\* C1: for every invocation of main with a type among the five, exactly one
\* handler is called, exactly once, the one matching the type; no other
\* handler runs; the handler receives the run list discovered from run_dir.
C1_Dispatch ==
    /\ Len(calls) <= 1
    /\ \A c \in 1..Len(calls) :
         calls[c] = [handler |-> ExpectedHandler(a.type), runs |-> runs]
    /\ Running # "" => (calls # <<>> /\ Running = calls[1].handler)
    /\ Terminated => Len(calls) = 1

C1_Witness ==
    /\ pc = "done" /\ a.type = "multi-eval" /\ Len(runs) = 2
    /\ calls = <<[handler |-> "offset_eval", runs |-> runs]>>

TableMode == a.type \in {"status", "multi-eval"}

\* C2 as written: in status and multi-eval mode a run that completes emits
\* the table exactly once to exactly one sink: to the CSV file and not to
\* stdout when -o is given, to stdout and to no file when it is not.
C2_AsWritten ==
    (pc = "done" /\ entry = "script" /\ TableMode) =>
        IF a.output # NoneVal
        THEN files = {[path |-> a.output, dir |-> 0, rows |-> summary]} /\ stdout = <<>>
        ELSE stdout = <<summary>> /\ files = {}

\* C2 amended: ... to the CSV file and not to stdout when -o is given with a
\* non-empty value, to stdout and to no file when -o is absent or empty.
C2_OneSink ==
    (pc = "done" /\ TableMode) =>
        /\ \/ Cardinality(files) = 1 /\ stdout = <<>>
           \/ files = {} /\ Len(stdout) = 1
        /\ entry = "script" =>
             IF a.output # NoneVal /\ a.output # ""
             THEN files = {[path |-> a.output, dir |-> 0, rows |-> summary]}
                  /\ stdout = <<>>
             ELSE stdout = <<summary>> /\ files = {}

C2_Witness ==
    /\ pc = "done" /\ entry = "script" /\ a.type = "status" /\ a.output = "out.csv"
    /\ files = {[path |-> "out.csv", dir |-> 0, rows |-> summary]}
    /\ Len(summary) = 2

\* The steps of confusion_plot on the runs rs, in order.
RECURSIVE ConfusionSteps(_)
ConfusionSteps(rs) ==
    IF rs = <<>> THEN <<>>
    ELSE << <<"load_run", rs[1]>>, <<"predict", rs[1]>>, <<"metrics", rs[1]>>,
            <<"savefig", rs[1]>>, <<"release", rs[1]>> >> \o ConfusionSteps(Tail(rs))

IsPrefix(p, q) == Len(p) <= Len(q) /\ SubSeq(q, 1, Len(p)) = p

\* C3: in confusion mode every discovered run is processed exactly once, in
\* discovery order, load_run -> predict -> write confusion.pdf -> release of
\* run k all before load_run of run k+1; after a successful invocation
\* exactly one confusion.pdf has been written per run, each into that run's
\* own directory.
C3_Sequential ==
    a.type = "confusion" =>
        /\ IsPrefix(log, ConfusionSteps(runs))
        /\ pc = "conf_load" => model = 0
        /\ pc = "done" =>
             /\ log = ConfusionSteps(runs)
             /\ \A f \in files : f.path = "confusion.pdf" /\ f.dir \in Range(runs)
             /\ \A r \in Range(runs) : Cardinality({f \in files : f.dir = r}) = 1

C3_Witness ==
    /\ pc = "done" /\ a.type = "confusion" /\ Len(runs) = 2 /\ Cardinality(files) = 2

\* Position of run r in runs (0-based), Len(runs) when it is not there.
IndexOf(r) ==
    IF r \in Range(runs) THEN (CHOOSE i \in 1..Len(runs) : runs[i] = r) - 1 ELSE Len(runs)

RunSteps == {"get_run_info", "load_run", "predict", "metrics", "savefig"}

\* C4: no recovery: when a step of run k raises (get_run_info, load_run,
\* predict, a metrics call or a file write) the exception leaves main and the
\* program stops; no run after k is processed, the confusion.pdf files of the
\* runs before k stay, and in status, multi-eval and ablation mode no table
\* is emitted.  (A get_run_summary that raises in status mode comes after
\* get_run_info of every run; it is not among the steps the claim lists.)
C4_NoRecovery ==
    failed # <<>> =>
        /\ pc = "raised" /\ exc # "" /\ ~ENABLED Next
        /\ failed[2] # 0 =>
             /\ (failed[1] \in RunSteps \/ a.type # "status") =>
                  \A e \in 1..Len(log) : IndexOf(log[e][2]) <= IndexOf(failed[2])
             /\ a.type = "confusion" =>
                  /\ \A f \in files : f.path = "confusion.pdf"
                  /\ {f.dir : f \in files} = {runs[i] : i \in 1..IndexOf(failed[2])}
                  /\ Cardinality(files) = IndexOf(failed[2])
             /\ a.type \in {"status", "multi-eval", "ablation"} =>
                  stdout = <<>> /\ files = {}

C4_Witness ==
    /\ pc = "raised" /\ a.type = "confusion" /\ Len(runs) = 2
    /\ failed = <<"predict", runs[2]>>
    /\ \E f \in files : f.dir = runs[1]

\* Steps still to go when the run list is empty.
Rank ==
    IF Terminated THEN 0
    ELSE (Len(Types) + 1 - ifi) * 10
         + (CASE pc = "if" -> 8
              [] pc \in {"train_info", "conf_load", "st_info", "oe_load", "ab_sum"} -> 7
              [] pc = "st_sum" -> 6
              [] OTHER -> 5 - prm)

Discovered == pc \notin {"start", "main"}

C5_Outcome ==
    (Discovered /\ runs = <<>>) =>
        /\ Terminated \/ ENABLED Next
        /\ (pc = "done" /\ a.type = "train") =>
             files = {[path |-> "train_progress.pdf", dir |-> 0, rows |-> 0]}
        /\ (Terminated /\ a.type = "train" /\ failed # <<"savefig", 0>>) => pc = "done"
        /\ a.type = "confusion" => (files = {} /\ pc # "raised")
        /\ a.type \in {"status", "multi-eval", "ablation"} =>
             /\ pc # "done"
             /\ stdout = <<>> /\ files = {}
             /\ pc = "raised" => (exc = "ValueError" /\ failed = <<"concat", 0>>)

\* C5: with an empty run list every mode terminates: train writes
\* train_progress.pdf with no curves, confusion writes no file and returns,
\* status, multi-eval and ablation end with the exception of concatenating an
\* empty list, with no table emitted and no file written.
C5_EmptyRunList ==
    /\ []C5_Outcome
    /\ [][(Discovered /\ runs = <<>>) => Rank' < Rank]_vars

C5_Witness ==
    /\ pc = "raised" /\ a.type = "status" /\ runs = <<>> /\ exc = "ValueError"

\* The table a finished status or multi-eval run has emitted.
Emitted == IF stdout # <<>> THEN stdout[1] ELSE (CHOOSE f \in files : TRUE).rows

SortKey == IF a.type = "status" THEN "best_acc" ELSE "multi_offset_acc"

\* C9: the emitted table has exactly one row per discovered run and no other
\* row, in non-increasing order of best_acc (status) or multi_offset_acc
\* (multi-eval), whatever the discovery order.
C9_TableRows ==
    (pc = "done" /\ TableMode) =>
        /\ Len(Emitted) = Len(runs)
        /\ {Emitted[i].run : i \in 1..Len(Emitted)} = Range(runs)
        /\ \A i \in 1..(Len(Emitted) - 1) :
             ~RatLess(Emitted[i][SortKey], Emitted[i + 1][SortKey])

C9_Witness ==
    /\ pc = "done" /\ a.type = "status" /\ Len(runs) = 2
    /\ Emitted[1].run = runs[2]
    /\ RatLess(Emitted[2].best_acc, Emitted[1].best_acc)

\* C10: for every call main(x) the data path and the output path the
\* handlers use are x.data and x.output: the argument of main decides, no
\* other state of the module does.
C10_ArgumentDecides ==
    /\ exc # "NameError"
    /\ \A u \in used : u = <<"data", a.data>> \/ u = <<"output", a.output>>

====
